---- MODULE Spec2Model ----
(***************************************************************************)
(* Model of the Gemini Weather App component (src/index.tsx).              *)
(*                                                                         *)
(* Strings are sequences of one-character strings.  A JavaScript value that *)
(* may be null, undefined or a string is <<"null">>, <<"undefined">> or     *)
(* <<"string", s>>.  The React state of App is the variables query,         *)
(* weatherData, sources, loading and error; the environment is the          *)
(* geolocation lookups and generateContent calls that have not resolved     *)
(* yet.  One action is one event-loop task: React 18 batches every setState *)
(* of a task into one commit, so the intermediate values are not states.    *)
(* A failure of generateContent is a rejection of the awaited promise with  *)
(* an error object; a failure of line 41 is a throw in the task that called *)
(* fetchWeather.  renderMarkdown, the rendering of the source list and the  *)
(* prompt templates are functions of their argument alone: SpecRender,     *)
(* SpecSources and SpecPrompt apply each to every argument of a bounded    *)
(* set, in the variables arg and result.                                   *)
(***************************************************************************)
EXTENDS Integers, Sequences, FiniteSets, TLC

VARIABLES
    query,        \* useState("")          line 25
    weatherData,  \* useState(null)        line 26
    sources,      \* useState([])          line 27
    loading,      \* useState(false)       line 28
    error,        \* useState(null)        line 29
    geoSupported, \* "geolocation" in navigator, fixed for the session
    clientReady,  \* line 41 completes: API_KEY is defined and the client accepts it
    geoPending,   \* getCurrentPosition lookups whose callback has not run
    inflight,     \* generateContent calls whose promise has not settled
    nextId,       \* number of the next query started by a user action
    lastIssued,   \* number of the query whose generateContent call was issued last
    lastResolved, \* the fetchWeather try block that ended last, with its outcome
    requests,     \* number of generateContent requests sent to the service
    lastEvent,    \* the handler or callback that ran last
    arg,          \* argument of renderMarkdown, the source list or a prompt
    result        \* its value, <<>> before it is computed

vars == <<query, weatherData, sources, loading, error, geoSupported,
          clientReady, geoPending, inflight, nextId, lastIssued, lastResolved,
          requests, lastEvent, arg, result>>

\* the variables of the component and of its pending operations
app == <<query, weatherData, sources, loading, error, geoSupported,
         clientReady, geoPending, inflight, nextId, lastIssued, lastResolved,
         requests>>

\* the variables of the pure-function specifications
pure == <<arg, result>>

\* what the session fixes
env == <<geoSupported, clientReady>>

-----------------------------------------------------------------------------
(* Bounds of the model. *)

\* user actions that start a query, per behaviour
MaxQueries == 2
\* length of the text typed into the input
MaxQueryLen == 1

-----------------------------------------------------------------------------
(* JavaScript values. *)

Null == <<"null">>
Undefined == <<"undefined">>
Str(s) == <<"string", s>>
Arr(a) == <<"array", a>>

IsStr(v) == Len(v) = 2 /\ v[1] = "string"

\* JavaScript truthiness of null | undefined | string
Truthy(v) == IsStr(v) /\ v[2] # <<>>

\* v || d for a string default d
OrElse(v, d) == IF Truthy(v) THEN v ELSE Str(d)

\* v || [] for undefined | array
OrEmptyArray(v) == IF v = Undefined THEN <<>> ELSE v[2]

IsSpace(c) == c \in {" ", "\t", "\n", "\r"}

RECURSIVE TrimStart(_)
TrimStart(s) ==
    IF s # <<>> /\ IsSpace(Head(s)) THEN TrimStart(Tail(s)) ELSE s

RECURSIVE TrimEnd(_)
TrimEnd(s) ==
    IF s # <<>> /\ IsSpace(s[Len(s)]) THEN TrimEnd(SubSeq(s, 1, Len(s) - 1)) ELSE s

\* String.prototype.trim
Trim(s) == TrimEnd(TrimStart(s))

DigitChars == <<"0", "1", "2", "3", "4", "5", "6", "7", "8", "9">>

RECURSIVE NatToString(_)
NatToString(n) ==
    IF n < 10 THEN <<DigitChars[n + 1]>>
    ELSE NatToString(n \div 10) \o <<DigitChars[(n % 10) + 1]>>

\* Number-to-string conversion of a template literal, for a coordinate held
\* in tenths of a degree: -335 is -33.5 and prints "-33.5", 20 is 2 and
\* prints "2".
NumberToString(t) ==
    LET a == IF t < 0 THEN -t ELSE t
    IN  (IF t < 0 THEN <<"-">> ELSE <<>>)
        \o NatToString(a \div 10)
        \o (IF a % 10 = 0 THEN <<>> ELSE <<".", DigitChars[(a % 10) + 1]>>)

-----------------------------------------------------------------------------
(* String literals of the source. *)

PlacePrefix ==
    <<"W", "h", "a", "t", " ", "i", "s", " ", "t", "h", "e", " ", "c", "u", "r", "r", "e", "n", "t", " ", "w", "e", "a", "t", "h", "e", "r", " ", "i", "n", " ">>

CoordPrefix ==
    <<"W", "h", "a", "t", " ", "i", "s", " ", "t", "h", "e", " ", "c", "u", "r", "r", "e", "n", "t", " ", "w", "e", "a", "t", "h", "e", "r", " ", "a", "t", " ", "l", "a", "t", "i", "t", "u", "d", "e", " ">>

CoordMiddle ==
    <<",", " ", "l", "o", "n", "g", "i", "t", "u", "d", "e", " ">>

PromptSuffix ==
    <<"?", " ", "P", "l", "e", "a", "s", "e", " ", "p", "r", "o", "v", "i", "d", "e", " ", "a", " ", "s", "u", "m", "m", "a", "r", "y", " ", "i", "n", "c", "l", "u", "d", "i", "n", "g", " ", "t", "e", "m", "p", "e", "r", "a", "t", "u", "r", "e", ",", " ", "s", "k", "y", " ", "c", "o", "n", "d", "i", "t", "i", "o", "n", ",", " ", "h", "u", "m", "i", "d", "i", "t", "y", ",", " ", "a", "n", "d", " ", "w", "i", "n", "d", " ", "s", "p", "e", "e", "d", ".", " ", "F", "o", "r", "m", "a", "t", " ", "i", "t", " ", "n", "i", "c", "e", "l", "y", " ", "w", "i", "t", "h", " ", "m", "a", "r", "k", "d", "o", "w", "n", ".">>

NoWeatherData ==
    <<"N", "o", " ", "w", "e", "a", "t", "h", "e", "r", " ", "d", "a", "t", "a", " ", "f", "o", "u", "n", "d", ".">>

FetchFailed ==
    <<"F", "a", "i", "l", "e", "d", " ", "t", "o", " ", "f", "e", "t", "c", "h", " ", "w", "e", "a", "t", "h", "e", "r", " ", "d", "a", "t", "a", ".", " ", "P", "l", "e", "a", "s", "e", " ", "t", "r", "y", " ", "a", "g", "a", "i", "n", ".">>

LocationFailed ==
    <<"U", "n", "a", "b", "l", "e", " ", "t", "o", " ", "r", "e", "t", "r", "i", "e", "v", "e", " ", "l", "o", "c", "a", "t", "i", "o", "n", ".", " ", "P", "l", "e", "a", "s", "e", " ", "c", "h", "e", "c", "k", " ", "p", "e", "r", "m", "i", "s", "s", "i", "o", "n", "s", ".">>

GeoUnsupported ==
    <<"G", "e", "o", "l", "o", "c", "a", "t", "i", "o", "n", " ", "i", "s", " ", "n", "o", "t", " ", "s", "u", "p", "p", "o", "r", "t", "e", "d", " ", "b", "y", " ", "y", "o", "u", "r", " ", "b", "r", "o", "w", "s", "e", "r", ".">>

CurrentLocation ==
    <<"C", "u", "r", "r", "e", "n", "t", " ", "L", "o", "c", "a", "t", "i", "o", "n">>

\* the prompt built from query.trim() in place of query
PlacePromptTrimmed(q) == PlacePrefix \o Trim(q) \o PromptSuffix

\* the prompt handleSearch builds from the input text
PlacePrompt(q) == PlacePrefix \o q \o PromptSuffix

\* the prompt the geolocation success callback builds from position.coords
CoordPrompt(latitude, longitude) ==
    CoordPrefix \o NumberToString(latitude) \o CoordMiddle
        \o NumberToString(longitude) \o PromptSuffix

-----------------------------------------------------------------------------
(* Inputs: what the user can type and what the collaborators can answer. *)

InputChars == {" ", "a"}

RECURSIVE TextsUpTo(_)
TextsUpTo(n) ==
    IF n = 0 THEN {<<>>}
    ELSE LET shorter == TextsUpTo(n - 1)
         IN  shorter \cup {Append(s, c) : s \in shorter, c \in InputChars}

\* values of e.target.value delivered to onChange
TypedTexts == TextsUpTo(MaxQueryLen)

\* position.coords delivered by getCurrentPosition, in tenths of a degree
Positions ==
    { [latitude |-> 489, longitude |-> 20],
      [latitude |-> -335, longitude |-> 0] }

\* one grounding chunk with a web record and one without
WebChunk == [web |-> <<"object", Str(<<"u">>), Undefined>>]
BareChunk == [web |-> Undefined]

\* fulfilled responses of generateContent: response.text and the grounding
\* chunks found by the optional chain of line 53
Fulfilled ==
    { [ok |-> TRUE, text |-> t, chunks |-> c] :
        t \in {Undefined, Str(<<>>), Str(<<"O", "k">>)},
        c \in {Undefined, Arr(<<>>), Arr(<<WebChunk, BareChunk>>)} }

\* rejections of generateContent: the err.message of the thrown error
Rejected ==
    { [ok |-> FALSE, message |-> m] :
        m \in {Undefined, Str(<<>>), Str(<<"4", "2", "9">>)} }

Responses == Fulfilled \cup Rejected

NoResponse == [ok |-> FALSE, message |-> Null]

-----------------------------------------------------------------------------
(* The query status the content area derives from the state. *)

Status ==
    IF loading THEN "Loading"
    ELSE IF Truthy(error) THEN "Error"
    ELSE IF Truthy(weatherData) THEN "Success"
    ELSE "Idle"

\* the four branches of the content area, lines 157-202

ShowsSpinner == loading

ShowsError == ~loading /\ Truthy(error)

\* the answer rendered by a conditional of its own, outside the ternary
ShowsAnswerUnnested == Truthy(weatherData)

ShowsAnswer == ~loading /\ ~Truthy(error) /\ Truthy(weatherData)

ShowsPlaceholder == ~loading /\ ~Truthy(error) /\ ~Truthy(weatherData)

\* how many of the four are on screen
ViewsShown ==
    (IF ShowsSpinner THEN 1 ELSE 0) + (IF ShowsError THEN 1 ELSE 0)
        + (IF ShowsAnswer THEN 1 ELSE 0) + (IF ShowsPlaceholder THEN 1 ELSE 0)

-----------------------------------------------------------------------------
(* fetchWeather *)

\* fetchWeather without setWeatherData(null)
FetchWeatherStartKeepsText(id, prompt) ==
    /\ loading' = TRUE
    /\ error' = Null
    /\ sources' = <<>>
    /\ inflight' = inflight \cup {[id |-> id, prompt |-> prompt]}
    /\ lastIssued' = id
    /\ requests' = requests + 1
    /\ UNCHANGED <<weatherData, lastResolved>>

\* fetchWeather without setError(null)
FetchWeatherStartKeepsError(id, prompt) ==
    /\ loading' = TRUE
    /\ weatherData' = Null
    /\ sources' = <<>>
    /\ inflight' = inflight \cup {[id |-> id, prompt |-> prompt]}
    /\ lastIssued' = id
    /\ requests' = requests + 1
    /\ UNCHANGED <<error, lastResolved>>

\* fetchWeather without setSources([])
FetchWeatherStartKeepsSources(id, prompt) ==
    /\ loading' = TRUE
    /\ error' = Null
    /\ weatherData' = Null
    /\ inflight' = inflight \cup {[id |-> id, prompt |-> prompt]}
    /\ lastIssued' = id
    /\ requests' = requests + 1
    /\ UNCHANGED <<sources, lastResolved>>

\* lines 35-50: the four resets and the generateContent call, up to the await
FetchWeatherStart(id, prompt) ==
    /\ loading' = TRUE
    /\ error' = Null
    /\ weatherData' = Null
    /\ sources' = <<>>
    /\ inflight' = inflight \cup {[id |-> id, prompt |-> prompt]}
    /\ lastIssued' = id
    /\ requests' = requests + 1
    /\ UNCHANGED lastResolved

\* lines 35-41 and 57-62: line 41 throws (process or API_KEY undefined, or
\* the client rejecting the key), so the catch and finally blocks run in
\* the same task as the four resets and no request is issued
FetchWeatherThrows(id) ==
    /\ \E r \in Rejected :
          /\ error' = OrElse(r.message, FetchFailed)
          /\ lastResolved' = [id |-> id, response |-> r]
    /\ loading' = FALSE
    /\ weatherData' = Null
    /\ sources' = <<>>
    /\ UNCHANGED <<inflight, lastIssued, requests>>

\* fetchWeather, lines 34-63, up to its first suspension or its return
fetchWeather(id, prompt) ==
    IF clientReady THEN FetchWeatherStart(id, prompt) ELSE FetchWeatherThrows(id)

\* the continuation with setLoading(false) in the catch block only
FetchWeatherFulfilledStaysLoading(r) ==
    /\ weatherData' = OrElse(r.text, NoWeatherData)
    /\ sources' = OrEmptyArray(r.chunks)
    /\ UNCHANGED <<loading, error>>

\* the continuation with text ?? placeholder in place of text || placeholder
FetchWeatherFulfilledNullish(r) ==
    /\ weatherData' = IF r.text = Undefined THEN Str(NoWeatherData) ELSE r.text
    /\ sources' = OrEmptyArray(r.chunks)
    /\ loading' = FALSE
    /\ UNCHANGED error

\* lines 52-56 and 60-62: the continuation after a fulfilled await
FetchWeatherFulfilled(r) ==
    /\ weatherData' = OrElse(r.text, NoWeatherData)
    /\ sources' = OrEmptyArray(r.chunks)
    /\ loading' = FALSE
    /\ UNCHANGED error

\* the catch block with err.message ?? generic in place of err.message || generic
FetchWeatherRejectedNullish(r) ==
    /\ error' = IF r.message = Undefined THEN Str(FetchFailed) ELSE r.message
    /\ loading' = FALSE
    /\ UNCHANGED <<weatherData, sources>>

\* lines 57-62: the catch block and the finally block
FetchWeatherRejected(r) ==
    /\ error' = OrElse(r.message, FetchFailed)
    /\ loading' = FALSE
    /\ UNCHANGED <<weatherData, sources>>

\* fetchWeather with one retry loop: a rejected call is sent again
GenerateResolvesRetries(c, r) ==
    /\ c \in inflight
    /\ lastEvent' = "response"
    /\ IF r.ok
       THEN /\ inflight' = inflight \ {c}
            /\ lastResolved' = [id |-> c.id, response |-> r]
            /\ FetchWeatherFulfilled(r)
            /\ UNCHANGED requests
       ELSE /\ requests' = requests + 1
            /\ UNCHANGED <<inflight, lastResolved, weatherData, sources,
                           loading, error>>
    /\ UNCHANGED <<query, env, pure, geoPending, nextId, lastIssued>>

\* fetchWeather with a request token: a response that is not the latest
\* issued call's is dropped
GenerateResolvesLatestOnly(c, r) ==
    /\ c \in inflight
    /\ inflight' = inflight \ {c}
    /\ lastResolved' = [id |-> c.id, response |-> r]
    /\ lastEvent' = "response"
    /\ IF c.id # lastIssued
       THEN UNCHANGED <<weatherData, sources, loading, error>>
       ELSE IF r.ok THEN FetchWeatherFulfilled(r) ELSE FetchWeatherRejected(r)
    /\ UNCHANGED <<query, env, pure, geoPending, nextId, lastIssued, requests>>

\* the awaited generateContent promise of call c settles with response r
GenerateResolves(c, r) ==
    /\ c \in inflight
    /\ inflight' = inflight \ {c}
    /\ lastResolved' = [id |-> c.id, response |-> r]
    /\ lastEvent' = "response"
    /\ IF r.ok THEN FetchWeatherFulfilled(r) ELSE FetchWeatherRejected(r)
    /\ UNCHANGED <<query, env, pure, geoPending, nextId, lastIssued, requests>>

-----------------------------------------------------------------------------
(* Event handlers *)

\* onChange of the input, line 133
SetQuery(text) ==
    /\ query' = text
    /\ lastEvent' = "change"
    /\ UNCHANGED <<weatherData, sources, loading, error, env, pure,
                   geoPending, inflight, nextId, lastIssued, requests, lastResolved>>

\* handleSearch testing query in place of query.trim()
handleSearchNoTrim ==
    /\ lastEvent' = "submit"
    /\ IF query = <<>>
       THEN UNCHANGED <<query, weatherData, sources, loading, error, env, pure,
                        geoPending, inflight, nextId, lastIssued, requests,
                        lastResolved>>
       ELSE /\ nextId <= MaxQueries
            /\ fetchWeather(nextId, PlacePrompt(query))
            /\ nextId' = nextId + 1
            /\ UNCHANGED <<query, env, pure, geoPending>>

\* handleSearch, lines 65-69
handleSearch ==
    /\ lastEvent' = "submit"
    /\ IF Trim(query) = <<>>
       THEN UNCHANGED <<query, weatherData, sources, loading, error, env, pure,
                        geoPending, inflight, nextId, lastIssued, requests,
                        lastResolved>>
       ELSE /\ nextId <= MaxQueries
            /\ fetchWeather(nextId, PlacePrompt(query))
            /\ nextId' = nextId + 1
            /\ UNCHANGED <<query, env, pure, geoPending>>

\* handleLocationClick without the setLoading(true) of line 73
handleLocationClickNoSpinner ==
    /\ lastEvent' = "click"
    /\ IF geoSupported
       THEN /\ nextId <= MaxQueries
            /\ geoPending' = geoPending \cup {nextId}
            /\ nextId' = nextId + 1
            /\ UNCHANGED <<query, weatherData, sources, loading, error,
                           env, pure, inflight, lastIssued, requests, lastResolved>>
       ELSE /\ error' = Str(GeoUnsupported)
            /\ UNCHANGED <<query, weatherData, sources, loading, env, pure,
                           geoPending, inflight, nextId, lastIssued, requests, lastResolved>>

\* handleLocationClick calling fetchWeather beside the lookup, not after it
handleLocationClickEager ==
    /\ lastEvent' = "click"
    /\ IF geoSupported
       THEN /\ nextId <= MaxQueries
            /\ geoPending' = geoPending \cup {nextId}
            /\ nextId' = nextId + 1
            /\ fetchWeather(nextId, CoordPrompt(0, 0))
            /\ UNCHANGED <<query, env, pure>>
       ELSE /\ error' = Str(GeoUnsupported)
            /\ UNCHANGED <<query, weatherData, sources, loading, env, pure,
                           geoPending, inflight, nextId, lastIssued, requests,
                           lastResolved>>

\* handleLocationClick with setError(null) beside setLoading(true)
handleLocationClickClearsError ==
    /\ lastEvent' = "click"
    /\ IF geoSupported
       THEN /\ nextId <= MaxQueries
            /\ loading' = TRUE
            /\ error' = Null
            /\ geoPending' = geoPending \cup {nextId}
            /\ nextId' = nextId + 1
            /\ UNCHANGED <<query, weatherData, sources, env, pure,
                           inflight, lastIssued, requests, lastResolved>>
       ELSE /\ error' = Str(GeoUnsupported)
            /\ UNCHANGED <<query, weatherData, sources, loading, env, pure,
                           geoPending, inflight, nextId, lastIssued, requests,
                           lastResolved>>

\* handleLocationClick, lines 71-88, up to the return of getCurrentPosition
handleLocationClick ==
    /\ lastEvent' = "click"
    /\ IF geoSupported
       THEN /\ nextId <= MaxQueries
            /\ loading' = TRUE
            /\ geoPending' = geoPending \cup {nextId}
            /\ nextId' = nextId + 1
            /\ UNCHANGED <<query, weatherData, sources, error, env, pure,
                           inflight, lastIssued, requests, lastResolved>>
       ELSE /\ error' = Str(GeoUnsupported)
            /\ UNCHANGED <<query, weatherData, sources, loading, env, pure,
                           geoPending, inflight, nextId, lastIssued, requests, lastResolved>>

\* the success callback of getCurrentPosition, lines 75-79
GeoSuccess(id, position) ==
    /\ id \in geoPending
    /\ geoPending' = geoPending \ {id}
    /\ fetchWeather(id, CoordPrompt(position.latitude, position.longitude))
    /\ query' = CurrentLocation
    /\ lastEvent' = "position"
    /\ UNCHANGED <<env, pure, nextId>>

\* the error callback without setLoading(false)
GeoErrorStaysLoading(id) ==
    /\ id \in geoPending
    /\ geoPending' = geoPending \ {id}
    /\ error' = Str(LocationFailed)
    /\ lastEvent' = "denied"
    /\ UNCHANGED <<query, weatherData, sources, loading, env, pure,
                   inflight, nextId, lastIssued, requests, lastResolved>>

\* the error callback of getCurrentPosition, lines 80-83
GeoError(id) ==
    /\ id \in geoPending
    /\ geoPending' = geoPending \ {id}
    /\ loading' = FALSE
    /\ error' = Str(LocationFailed)
    /\ lastEvent' = "denied"
    /\ UNCHANGED <<query, weatherData, sources, env, pure, inflight,
                   nextId, lastIssued, requests, lastResolved>>

-----------------------------------------------------------------------------
(* The interface: both buttons carry disabled={loading}, and the form is    *)
(* submitted through its submit button.                                     *)

Type == \E text \in TypedTexts : SetQuery(text)

\* the submit button without disabled={loading}
SubmitPlaceNameAlwaysEnabled == handleSearch

SubmitPlaceName == ~loading /\ handleSearch

SubmitCurrentLocation == ~loading /\ handleLocationClick

LocationFound == \E id \in geoPending, position \in Positions : GeoSuccess(id, position)

LocationDenied == \E id \in geoPending : GeoError(id)

ServiceAnswers == \E c \in inflight, r \in Responses : GenerateResolves(c, r)

Init ==
    /\ query = <<>>
    /\ weatherData = Null
    /\ sources = <<>>
    /\ loading = FALSE
    /\ error = Null
    /\ geoSupported \in BOOLEAN
    /\ clientReady \in BOOLEAN
    /\ geoPending = {}
    /\ inflight = {}
    /\ nextId = 1
    /\ lastIssued = 0
    /\ lastResolved = [id |-> 0, response |-> NoResponse]
    /\ requests = 0
    /\ lastEvent = "init"
    /\ arg = <<>>
    /\ result = <<>>

Next ==
    \/ Type
    \/ SubmitPlaceName
    \/ SubmitCurrentLocation
    \/ LocationFound
    \/ LocationDenied
    \/ ServiceAnswers

Spec == Init /\ [][Next]_vars

-----------------------------------------------------------------------------
(* The same handlers with the presentation layer's disabled={loading} taken *)
(* away: a submit event or a click delivered while a query is loading       *)
(* (form.requestSubmit(), a scripted click).  The interface never does      *)
(* this; the specification exists to say what fetchWeather does when calls  *)
(* overlap.                                                                 *)

SubmitEvent == handleSearch

ClickEvent == handleLocationClick

NextUngated ==
    \/ Type
    \/ SubmitEvent
    \/ ClickEvent
    \/ LocationFound
    \/ LocationDenied
    \/ ServiceAnswers

SpecUngated == Init /\ [][NextUngated]_vars

(* Every geolocation lookup and every generateContent call resolves. *)
FairSpec ==
    /\ Spec
    /\ WF_vars(LocationFound \/ LocationDenied)
    /\ WF_vars(ServiceAnswers)

-----------------------------------------------------------------------------
(* Steps, as seen from a pair of states. *)

\* a user action started a query
StartStep == nextId' = nextId + 1

\* a generateContent call was issued
IssueStep == inflight' # inflight /\ inflight \subseteq inflight'

\* a generateContent call settled and its continuation ran
SettleStep == inflight' # inflight /\ inflight' \subseteq inflight

\* a try block of fetchWeather ended: a continuation ran, or line 41 threw
ResolveStep == lastResolved'.id # lastResolved.id

Cleared == weatherData = Null /\ sources = <<>> /\ error = Null

\* the outcome of the try block that ended last
Answer == lastResolved.response

-----------------------------------------------------------------------------
(* C1 *)

\* C1 as stated: a start action (non-blank submitPlaceName, or
\* submitCurrentLocation) taken in Success or Error leaves, in the same step,
\* loading true and the answer text, the sources and the error cleared.
C1_Original ==
    [][(StartStep /\ Status \in {"Success", "Error"})
          => (loading' /\ Cleared')]_vars

\* C1 amended: a start action that begins a lookup or issues a generation
\* request leaves loading true in the same step; a place-name start clears
\* text and sources in that step, and the error too when its request is
\* issued; a location start clears nothing, and text, sources and error are
\* cleared in the step that issues its generation request.
C1_StartClears ==
    [][/\ (StartStep /\ clientReady) => loading'
       /\ (StartStep /\ geoPending' # geoPending) => loading'
       /\ (StartStep /\ geoPending' = geoPending)
             => (weatherData' = Null /\ sources' = <<>>)
       /\ (StartStep /\ geoPending' = geoPending /\ clientReady)
             => (IssueStep /\ Cleared')
       /\ IssueStep => (loading' /\ Cleared')]_vars

\* a query is in flight, cleared, after an earlier query ended in Success
C1_Witness ==
    /\ inflight # {}
    /\ loading
    /\ Cleared
    /\ lastResolved.id > 0
    /\ Answer.ok

-----------------------------------------------------------------------------
(* C2 *)

\* C2: when a generation call fails, the state its continuation leaves is
\* Error with loading false, a non-empty message (the service's message when
\* it is non-empty, otherwise the generic one), no answer text and no sources.
C2_FailureIsError ==
    [][(ResolveStep /\ ~Answer'.ok) =>
          /\ Status' = "Error"
          /\ ~loading'
          /\ IsStr(error') /\ error'[2] # <<>>
          /\ error' = (IF Answer'.message \in {Undefined, Str(<<>>)}
                       THEN Str(FetchFailed) ELSE Answer'.message)
          /\ weatherData' = Null
          /\ sources' = <<>>]_vars

\* a call failed with an empty message and the generic message is shown
C2_Witness ==
    /\ lastResolved.id > 0
    /\ ~Answer.ok
    /\ Answer.message = Str(<<>>)
    /\ error = Str(FetchFailed)
    /\ Status = "Error"

-----------------------------------------------------------------------------
(* C3 *)

\* C3: when every lookup and every generation call resolves, loading true
\* is always followed by loading false.
C3_LoadingEnds == loading ~> ~loading

\* the geolocation-failure path has run to its end: loading is false again
C3_Witness ==
    /\ ~loading
    /\ nextId > 1
    /\ geoPending = {}
    /\ inflight = {}
    /\ error = Str(LocationFailed)

-----------------------------------------------------------------------------
(* C4 *)

\* C4 as stated: loading true implies no error message, no answer text and
\* no sources.
C4_Original == loading => Cleared

\* C4 amended: while a lookup or a generation call is outstanding loading is
\* true, and while a generation call is outstanding there is no error
\* message, no answer text and no sources (while only a lookup is pending
\* the previous payload is still stored).
C4_InFlightCleared ==
    /\ (geoPending # {} \/ inflight # {}) => loading
    /\ inflight # {} => Cleared

\* a call is in flight after an earlier call ended in Error
C4_Witness ==
    /\ inflight # {}
    /\ lastResolved.id > 0
    /\ ~Answer.ok
    /\ error = Null

-----------------------------------------------------------------------------
(* C5 *)

\* C5 as stated: an error message is never stored together with an answer
\* text or sources.
C5_Original == error # Null => (weatherData = Null /\ sources = <<>>)

\* C5 amended: an error message stored by a failed generation call is never
\* stored together with an answer text or sources; the two messages of the
\* location path leave the earlier text and sources in place.
C5_FetchErrorAlone ==
    error \notin {Null, Str(LocationFailed), Str(GeoUnsupported)}
        => (weatherData = Null /\ sources = <<>>)

\* the second query failed at the service and its message stands alone
C5_Witness ==
    /\ lastResolved.id >= 2
    /\ ~Answer.ok
    /\ error = OrElse(Answer.message, FetchFailed)
    /\ weatherData = Null
    /\ sources = <<>>
    /\ ~loading

-----------------------------------------------------------------------------
(* C6 *)

\* C6 as stated: a start leads to Loading, and Success and Error are
\* entered only from Loading.
C6_Original ==
    [][/\ StartStep => Status' = "Loading"
       /\ (Status' \in {"Success", "Error"} /\ Status' # Status)
             => Status = "Loading"]_vars

\* C6 amended: a start that begins a lookup or issues a generation request
\* leads to Loading; Success is entered only from Loading; Error is entered
\* only from Loading, or directly by a location request where geolocation
\* is unsupported (with its fixed message), or directly by a place-name
\* start whose client fails before the request is issued; Idle is never
\* re-entered.
C6_Transitions ==
    [][/\ (StartStep /\ geoPending' # geoPending) => Status' = "Loading"
       /\ IssueStep => Status' = "Loading"
       /\ (StartStep /\ clientReady) => Status' = "Loading"
       /\ (Status' = "Success" /\ Status # "Success") => Status = "Loading"
       /\ (Status' = "Error" /\ Status # "Error")
             => \/ Status = "Loading"
                \/ ~geoSupported /\ error' = Str(GeoUnsupported)
                \/ ~clientReady /\ StartStep /\ ResolveStep
       /\ (Status' = "Idle") => Status = "Idle"]_vars

\* Error was entered from Success by an unsupported location request
C6_Witness ==
    /\ Status = "Error"
    /\ error = Str(GeoUnsupported)
    /\ Truthy(weatherData)

-----------------------------------------------------------------------------
(* C7 *)

\* C7: the continuation of a settled generation call enters exactly one of
\* Success and Error: fulfilled, the answer text is set and the error is
\* absent; rejected, the error is set and text and sources are empty.
C7_ExactlyOne ==
    [][ResolveStep =>
          IF Answer'.ok
          THEN Status' = "Success" /\ Truthy(weatherData') /\ error' = Null
          ELSE /\ Status' = "Error" /\ Truthy(error')
               /\ weatherData' = Null /\ sources' = <<>>]_vars

\* a call was fulfilled with grounding chunks and Success holds them
C7_Witness ==
    /\ lastResolved.id > 0
    /\ Answer.ok
    /\ Status = "Success"
    /\ error = Null
    /\ sources # <<>>

-----------------------------------------------------------------------------
(* C8 *)

\* C8: the stored answer text is never the empty string, and a fulfilled
\* call whose text is empty or absent leaves Success with the placeholder.
C8_Placeholder ==
    /\ [](weatherData = Null \/ (IsStr(weatherData) /\ weatherData[2] # <<>>))
    /\ [][(ResolveStep /\ Answer'.ok /\ Answer'.text \in {Undefined, Str(<<>>)})
             => (weatherData' = Str(NoWeatherData) /\ Status' = "Success")]_vars

\* a call was fulfilled with the empty string and the placeholder is stored
C8_Witness ==
    /\ lastResolved.id > 0
    /\ Answer.ok
    /\ Answer.text = Str(<<>>)
    /\ weatherData = Str(NoWeatherData)
    /\ Status = "Success"

-----------------------------------------------------------------------------
(* C9 *)

\* C9: through the interface at most one lookup or generation call is
\* outstanding.
C9_OneOutstanding == Cardinality(geoPending) + Cardinality(inflight) <= 1

\* the second query is outstanding after the first has resolved
C9_Witness ==
    /\ Cardinality(geoPending) + Cardinality(inflight) = 1
    /\ nextId = 3
    /\ lastResolved.id = 1

-----------------------------------------------------------------------------
(* C10 *)

\* the state is as the continuation of the call settled last left it
AsLastWritten ==
    /\ ~loading
    /\ IF Answer.ok
       THEN /\ weatherData = OrElse(Answer.text, NoWeatherData)
            /\ sources = OrEmptyArray(Answer.chunks)
            /\ error = Null
       ELSE /\ error = OrElse(Answer.message, FetchFailed)
            /\ weatherData = Null
            /\ sources = <<>>

-----------------------------------------------------------------------------
(* C11 *)

\* C11: no generation call is in flight for a query whose lookup is still
\* pending; a request is sent only by a place-name submit or by the success
\* callback of the lookup of that query; a failed lookup and an unsupported
\* location request send no request and leave Error with a message.
C11_LookupThenRequest ==
    /\ [](\A c \in inflight : c.id \notin geoPending)
    /\ [][/\ (requests' # requests) =>
                \/ lastEvent' = "submit"
                \/ /\ lastEvent' = "position"
                   /\ lastIssued' \in geoPending
                   /\ lastIssued' \notin geoPending'
          /\ (lastEvent' = "denied") =>
                /\ requests' = requests /\ inflight' = inflight
                /\ Status' = "Error" /\ Truthy(error')
          /\ (lastEvent' = "click" /\ ~geoSupported) =>
                /\ requests' = requests /\ inflight' = inflight
                /\ geoPending' = geoPending
                /\ Status' = "Error" /\ Truthy(error')]_vars

\* the second query was a location request whose lookup failed: one request
\* in all, the first query's
C11_Witness ==
    /\ lastEvent = "denied"
    /\ nextId = 3
    /\ requests = 1
    /\ inflight = {}
    /\ Status = "Error"
    /\ error = Str(LocationFailed)

-----------------------------------------------------------------------------
(* C12 *)

\* a step in which a handler calls fetchWeather
FetchInvoked ==
    \/ lastEvent' = "position"
    \/ lastEvent' = "submit" /\ Trim(query) # <<>>

\* C12 as stated: every call of fetchWeather sends exactly one request.
C12_Original == [][FetchInvoked => requests' = requests + 1]_vars

\* C12: the requests sent never outnumber the queries started; a step sends
\* at most one request, only in a call of fetchWeather, and puts exactly one
\* call in flight; a call of fetchWeather sends exactly one request when the
\* client is constructed and none when its construction throws; the
\* continuation of a settled call sends none.
C12_NoRetry ==
    /\ [](requests <= nextId - 1)
    /\ [][/\ (requests' # requests) =>
                /\ requests' = requests + 1
                /\ Cardinality(inflight') = Cardinality(inflight) + 1
                /\ FetchInvoked
          /\ FetchInvoked =>
                requests' = requests + (IF clientReady THEN 1 ELSE 0)
          /\ (lastEvent' = "response") => requests' = requests]_vars

\* two queries, two requests, the second rejected and not sent again
C12_Witness ==
    /\ lastEvent = "response"
    /\ nextId = 3
    /\ requests = 2
    /\ inflight = {}
    /\ lastResolved.id = 2
    /\ ~Answer.ok

-----------------------------------------------------------------------------
(* C13 *)

\* C13: a submit of a text that is empty after trimming sends no request
\* and leaves loading, error, answer text and sources as they were.
C13_BlankIgnored ==
    [][(lastEvent' = "submit" /\ Trim(query) = <<>>) =>
          /\ requests' = requests
          /\ inflight' = inflight
          /\ UNCHANGED <<loading, error, weatherData, sources>>]_vars

\* a white-space text was submitted while an answer was on screen
C13_Witness ==
    /\ lastEvent = "submit"
    /\ query = <<" ">>
    /\ Status = "Success"
    /\ requests = 1

-----------------------------------------------------------------------------
(* C14 *)

-----------------------------------------------------------------------------
(* C19 *)

\* C19: sources are stored only together with an answer text.
C19_SourcesWithAnswer == sources # <<>> => IsStr(weatherData)

\* sources and their answer, kept through the load of a location request
C19_Witness ==
    /\ sources # <<>>
    /\ IsStr(weatherData)
    /\ loading

-----------------------------------------------------------------------------
(* C20 *)

\* C20: a location request where geolocation is supported sets loading and
\* leaves error, text and sources; a failed lookup clears loading, stores
\* its message and leaves text and sources; a location request where
\* geolocation is unsupported stores its message and leaves loading, text
\* and sources.
C20_LocationFrame ==
    [][/\ (lastEvent' = "click" /\ geoSupported) =>
             (loading' /\ UNCHANGED <<error, weatherData, sources>>)
       /\ (lastEvent' = "denied") =>
             /\ ~loading'
             /\ error' = Str(LocationFailed)
             /\ UNCHANGED <<weatherData, sources>>
       /\ (lastEvent' = "click" /\ ~geoSupported) =>
             /\ error' = Str(GeoUnsupported)
             /\ UNCHANGED <<loading, weatherData, sources>>]_vars

\* a lookup failed after a Success: its message beside the old answer
C20_Witness ==
    /\ lastEvent = "denied"
    /\ ~loading
    /\ error = Str(LocationFailed)
    /\ Truthy(weatherData)
    /\ sources # <<>>

-----------------------------------------------------------------------------
(* renderMarkdown, lines 91-109 *)

MaxTextLen == 4

MarkdownChars == {"*", "#", "-", " ", "a", "\n"}

RECURSIVE MarkdownTextsUpTo(_)
MarkdownTextsUpTo(n) ==
    IF n = 0 THEN {<<>>}
    ELSE LET shorter == MarkdownTextsUpTo(n - 1)
         IN  shorter \cup {Append(s, c) : s \in shorter, c \in MarkdownChars}

ExampleText ==
    <<"*", "*", "T", "e", "m", "p", "e", "r", "a", "t", "u", "r",
      "e", "*", "*", "\n", "-", " ", "S", "u", "n", "n", "y", "\n",
      "\n", "F", "e", "e", "l", "s", " ", "n", "i", "c", "e">>

\* answer texts handed to renderMarkdown
MarkdownTexts == MarkdownTextsUpTo(MaxTextLen) \cup {ExampleText}

\* text.split('\n'): one more line than there are newlines
RECURSIVE Split(_)
Split(s) ==
    IF \A i \in 1..Len(s) : s[i] # "\n" THEN <<s>>
    ELSE LET k == CHOOSE i \in 1..Len(s) :
                      s[i] = "\n" /\ \A j \in 1..(i - 1) : s[j] # "\n"
         IN  <<SubSeq(s, 1, k - 1)>> \o Split(SubSeq(s, k + 1, Len(s)))

\* String.prototype.startsWith
StartsWith(s, p) == Len(s) >= Len(p) /\ SubSeq(s, 1, Len(p)) = p

\* replace(/\*\*/g, ''): the matches are taken left to right, not overlapping
RECURSIVE RemoveBold(_)
RemoveBold(s) ==
    IF Len(s) < 2 THEN s
    ELSE IF s[1] = "*" /\ s[2] = "*" THEN RemoveBold(SubSeq(s, 3, Len(s)))
    ELSE <<s[1]>> \o RemoveBold(Tail(s))

\* replace(/#/g, '')
RemoveHashes(s) == SelectSeq(s, LAMBDA c : c # "#")

\* replace(/^[\*\-]\s*/, ''): anchored at the first character of the line
RemoveBullet(s) ==
    IF s # <<>> /\ s[1] \in {"*", "-"} THEN TrimStart(Tail(s)) ELSE s

Block(kind, text) == [kind |-> kind, text |-> text]

\* the body of lines.map with the list test ahead of the heading test
renderLineListFirst(line) ==
    IF StartsWith(Trim(line), <<"*">>) \/ StartsWith(Trim(line), <<"-">>)
    THEN Block("ListItem", RemoveBold(RemoveBullet(line)))
    ELSE IF StartsWith(line, <<"*", "*">>) \/ StartsWith(line, <<"#">>)
    THEN Block("Heading", RemoveHashes(RemoveBold(line)))
    ELSE IF Trim(line) = <<>>
    THEN Block("Blank", <<>>)
    ELSE Block("Paragraph", RemoveBold(line))

\* the body of lines.map, lines 96-107: <p bold>, <li>, <br/>, <p>
renderLine(line) ==
    IF StartsWith(line, <<"*", "*">>) \/ StartsWith(line, <<"#">>)
    THEN Block("Heading", RemoveHashes(RemoveBold(line)))
    ELSE IF StartsWith(Trim(line), <<"*">>) \/ StartsWith(Trim(line), <<"-">>)
    THEN Block("ListItem", RemoveBold(RemoveBullet(line)))
    ELSE IF Trim(line) = <<>>
    THEN Block("Blank", <<>>)
    ELSE Block("Paragraph", RemoveBold(line))

renderMarkdown(text) ==
    LET lines == Split(text)
    IN  [idx \in 1..Len(lines) |-> renderLine(lines[idx])]

\* the component as mounted, with nothing typed and nothing requested
Mounted ==
    /\ query = <<>>
    /\ weatherData = Null
    /\ sources = <<>>
    /\ loading = FALSE
    /\ error = Null
    /\ geoSupported = TRUE
    /\ clientReady = TRUE
    /\ geoPending = {}
    /\ inflight = {}
    /\ nextId = 1
    /\ lastIssued = 0
    /\ lastResolved = [id |-> 0, response |-> NoResponse]
    /\ requests = 0

InitRender ==
    /\ Mounted
    /\ lastEvent = "init"
    /\ arg \in MarkdownTexts
    /\ result = <<>>

Render ==
    /\ lastEvent = "init"
    /\ lastEvent' = "render"
    /\ result' = renderMarkdown(arg)
    /\ UNCHANGED <<app, arg>>

SpecRender == InitRender /\ [][Render]_vars

-----------------------------------------------------------------------------
(* C15 *)

Newlines(s) == Cardinality({i \in 1..Len(s) : s[i] = "\n"})

\* the kind of a line, by the first test that matches
KindOf(line) ==
    IF StartsWith(line, <<"*", "*">>) \/ StartsWith(line, <<"#">>)
        THEN "Heading"
    ELSE IF Trim(line) # <<>> /\ Trim(line)[1] \in {"*", "-"}
        THEN "ListItem"
    ELSE IF Trim(line) = <<>>
        THEN "Blank"
    ELSE "Paragraph"

ExampleBlocks ==
    << Block("Heading", <<"T", "e", "m", "p", "e", "r", "a", "t", "u", "r", "e">>),
       Block("ListItem", <<"S", "u", "n", "n", "y">>),
       Block("Blank", <<>>),
       Block("Paragraph", <<"F", "e", "e", "l", "s", " ", "n", "i", "c", "e">>) >>

\* C15: a text with k newlines renders to k + 1 blocks, the i-th block of
\* the kind of the i-th line by first match of heading, list item, blank,
\* paragraph; the example text renders to the four example blocks.
C15_OneBlockPerLine ==
    lastEvent = "render" =>
        /\ Len(result) = Newlines(arg) + 1
        /\ \A i \in 1..Len(result) : result[i].kind = KindOf(Split(arg)[i])
        /\ arg = ExampleText => result = ExampleBlocks

\* a line that passes both the heading and the list test, rendered as a
\* heading, followed by a list item
C15_Witness ==
    /\ lastEvent = "render"
    /\ arg = <<"*", "*", "\n", "-">>
    /\ Len(result) = 2
    /\ result[1].kind = "Heading"
    /\ result[2].kind = "ListItem"

-----------------------------------------------------------------------------
(* C16 *)

Occurrences(s, c) == Cardinality({i \in 1..Len(s) : s[i] = c})

HasBold(s) == \E i \in 1..(Len(s) - 1) : s[i] = "*" /\ s[i + 1] = "*"

\* C16 as stated: a list item's text has lost the bullet its line begins
\* with after trimming and holds no **; a heading's text holds no ** and
\* no #; a paragraph's text holds no **.
C16_Original ==
    lastEvent = "render" =>
        \A i \in 1..Len(result) :
            LET line == Split(arg)[i]
                text == result[i].text
                bullet == Trim(line)[1]
            IN  /\ result[i].kind = "ListItem" =>
                      /\ Occurrences(text, bullet) < Occurrences(line, bullet)
                      /\ ~HasBold(text)
                /\ result[i].kind = "Heading" =>
                      ~HasBold(text) /\ Occurrences(text, "#") = 0
                /\ result[i].kind = "Paragraph" => ~HasBold(text)

\* an indented list item rendered with its bullet
C16_Witness ==
    /\ lastEvent = "render"
    /\ arg = <<" ", "-", " ", "a">>
    /\ result = <<Block("ListItem", <<" ", "-", " ", "a">>)>>

-----------------------------------------------------------------------------
(* the list of sources, lines 173-195 *)

MaxChunks == 3

HttpsPrefix == <<"h", "t", "t", "p", "s", ":", "/", "/">>

HttpPrefix == <<"h", "t", "t", "p", ":", "/", "/">>

\* the characters that end the host of a URL
HostEnd == {"/", "?", "#", ":"}

RECURSIVE UpToHostEnd(_)
UpToHostEnd(s) ==
    IF s = <<>> \/ Head(s) \in HostEnd THEN <<>>
    ELSE <<Head(s)>> \o UpToHostEnd(Tail(s))

\* new URL(uri).hostname for an http(s) URL in lower case without
\* credentials; any other argument (undefined, a relative reference, an
\* empty host) makes the constructor throw, here Undefined
Hostname(uri) ==
    IF ~IsStr(uri) THEN Undefined
    ELSE LET u == uri[2]
             rest == IF StartsWith(u, HttpsPrefix)
                         THEN SubSeq(u, Len(HttpsPrefix) + 1, Len(u))
                     ELSE IF StartsWith(u, HttpPrefix)
                         THEN SubSeq(u, Len(HttpPrefix) + 1, Len(u))
                     ELSE <<>>
         IN  IF UpToHostEnd(rest) = <<>> THEN Undefined
             ELSE Str(UpToHostEnd(rest))

\* a groundingChunks entry: web is undefined or an object with optional
\* uri and title
Chunk(uri, title) == [web |-> <<"object", uri, title>>]

MetUri == Str(<<"h", "t", "t", "p", "s", ":", "/", "/", "a", ".", "i", "o", "/", "x">>)

WikiUri == Str(<<"h", "t", "t", "p", ":", "/", "/", "b", ".", "o", "r", "g">>)

RelativeUri == Str(<<"x">>)

MetTitle == Str(<<"M", "e", "t">>)

Chunks ==
    { BareChunk,
      Chunk(MetUri, MetTitle),
      Chunk(MetUri, Undefined),
      Chunk(WikiUri, Str(<<>>)),
      Chunk(RelativeUri, Undefined),
      Chunk(Undefined, MetTitle),
      Chunk(Undefined, Undefined) }

RECURSIVE ChunkListsUpTo(_)
ChunkListsUpTo(n) ==
    IF n = 0 THEN {<<>>}
    ELSE LET shorter == ChunkListsUpTo(n - 1)
         IN  shorter \cup {Append(s, c) : s \in shorter, c \in Chunks}

\* one element of sources.map, lines 177-192: an <a>, null, or the
\* exception of new URL
renderChunk(chunk) ==
    IF chunk.web = Undefined THEN [ok |-> TRUE, links |-> <<>>]
    ELSE LET uri == chunk.web[2]
             title == chunk.web[3]
         IN  IF Truthy(title)
             THEN [ok |-> TRUE, links |-> <<[href |-> uri, label |-> title]>>]
             ELSE IF Hostname(uri) = Undefined
             THEN [ok |-> FALSE, links |-> <<>>]
             ELSE [ok |-> TRUE,
                   links |-> <<[href |-> uri, label |-> Hostname(uri)]>>]

\* sources.map(...) as rendered: the anchors in order, or the exception
RECURSIVE renderSources(_)
renderSources(chunks) ==
    IF chunks = <<>> THEN [ok |-> TRUE, links |-> <<>>]
    ELSE LET first == renderChunk(Head(chunks))
             others == renderSources(Tail(chunks))
         IN  IF first.ok /\ others.ok
             THEN [ok |-> TRUE, links |-> first.links \o others.links]
             ELSE [ok |-> FALSE, links |-> <<>>]

InitSources ==
    /\ Mounted
    /\ lastEvent = "init"
    /\ arg \in ChunkListsUpTo(MaxChunks)
    /\ result = <<>>

RenderSources ==
    /\ lastEvent = "init"
    /\ lastEvent' = "sources"
    /\ result' = renderSources(arg)
    /\ UNCHANGED <<app, arg>>

SpecSources == InitSources /\ [][RenderSources]_vars

-----------------------------------------------------------------------------
(* C17 *)

\* the entries of a chunk list that have a web record, in order
WithWeb(chunks) == SelectSeq(chunks, LAMBDA c : c.web # Undefined)

\* C17 as stated: rendering a chunk list never fails; it emits one source
\* for each entry that has a web record, in order, each with a URL, under
\* its title or, without a title, under the host name of its URL.
C17_Original ==
    lastEvent = "sources" =>
        /\ result.ok
        /\ Len(result.links) = Len(WithWeb(arg))
        /\ \A i \in 1..Len(result.links) :
              LET web == WithWeb(arg)[i].web
                  link == result.links[i]
              IN  /\ IsStr(link.href)
                  /\ link.href = web[2]
                  /\ link.label =
                        IF Truthy(web[3]) THEN web[3] ELSE Hostname(web[2])

\* a source emitted with a title and no URL
C17_Witness ==
    /\ lastEvent = "sources"
    /\ arg = <<Chunk(Undefined, MetTitle)>>
    /\ result.ok
    /\ result.links = <<[href |-> Undefined, label |-> MetTitle]>>

-----------------------------------------------------------------------------
(* the prompt templates, lines 68 and 77 *)

MaxPlaceLen == 4

\* texts that pass the test of line 67
PlaceNames == {q \in TextsUpTo(MaxPlaceLen) : Trim(q) # <<>>}

\* latitudes and longitudes of position.coords, in tenths of a degree
Latitudes == {-900, -335, -5, 0, 489, 900}

Longitudes == {-1800, -1234, 0, 7, 20, 1800}

\* what a prompt is built from: the text of the input, or the coordinates
PromptInputs ==
    {<<"place", q>> : q \in PlaceNames}
        \cup {<<"coords", la, lo>> : la \in Latitudes, lo \in Longitudes}

buildPrompt(input) ==
    IF input[1] = "place" THEN PlacePrompt(input[2])
    ELSE CoordPrompt(input[2], input[3])

InitPrompt ==
    /\ Mounted
    /\ lastEvent = "init"
    /\ arg \in PromptInputs
    /\ result = <<>>

BuildPrompt ==
    /\ lastEvent = "init"
    /\ lastEvent' = "prompt"
    /\ result' = buildPrompt(arg)
    /\ UNCHANGED <<app, arg>>

SpecPrompt == InitPrompt /\ [][BuildPrompt]_vars

-----------------------------------------------------------------------------
(* C18 *)

\* String.prototype.includes
Contains(s, p) ==
    \E i \in 0..(Len(s) - Len(p)) : SubSeq(s, i + 1, i + Len(p)) = p

RequiredWords ==
    { <<"t", "e", "m", "p", "e", "r", "a", "t", "u", "r", "e">>,
      <<"s", "k", "y", " ", "c", "o", "n", "d", "i", "t", "i", "o", "n">>,
      <<"h", "u", "m", "i", "d", "i", "t", "y">>,
      <<"w", "i", "n", "d", " ", "s", "p", "e", "e", "d">> }

\* C18: the prompt built from a non-blank place name contains that name as
\* typed, the prompt built from coordinates contains both numbers as
\* printed, and every prompt names temperature, sky condition, humidity
\* and wind speed.
C18_PromptContents ==
    lastEvent = "prompt" =>
        /\ \A w \in RequiredWords : Contains(result, w)
        /\ arg[1] = "place" => Contains(result, arg[2])
        /\ arg[1] = "coords" =>
              /\ Contains(result, NumberToString(arg[2]))
              /\ Contains(result, NumberToString(arg[3]))

\* a name typed after two spaces, found in the prompt with its spaces
C18_Witness ==
    /\ lastEvent = "prompt"
    /\ arg = <<"place", <<" ", " ", "a">>>>
    /\ Contains(result, <<"i", "n", " ", " ", " ", "a", "?">>)

====
